---- MODULE Spec2Model ----
(***************************************************************************)
(* Model of the two stateful cores of the Dataiku MCP server:              *)
(*   - the completion waiter of helpers/jobs.py (wait_for_job and the      *)
(*     build / scenario / recipe wrappers), specification WaitSpec;        *)
(*   - the execution session of server.py (execute_python over the         *)
(*     persistent namespace execution_globals), specification ExecSpec.    *)
(* Time is discrete (seconds).  A status query takes 0..MaxQueryTime       *)
(* seconds, time.sleep(n) takes exactly n seconds.                         *)
(* Specification OrderSpec runs execute_python, as a function of the       *)
(* session and the code, on two snippets in both orders.                   *)
(* Specification ConcSpec runs two execute_python calls in two threads,    *)
(* one step per read or write of the shared _client, execution_globals     *)
(* and sys.stdout.                                                         *)
(***************************************************************************)
EXTENDS Integers, Sequences, FiniteSets, TLC

\* ---------------------------------------------------------------- bounds
MaxTimeout == 4
MaxPoll == 3
MaxQueryTime == 1
MaxStart == 1
MaxCodeLen == 2
MaxSnippetLen == 1
MaxThreadCodeLen == 1

\* ------------------------------------------------------ program constants
DefaultPollInterval == 2
ScenarioSleep == 2

VARIABLES
    \* completion waiter (helpers/jobs.py)
    op,             \* the function being run: "none" before the call
    pc,             \* "idle", "polling", "returned", "raised"
    timeout,        \* argument timeout
    poll_interval,  \* argument poll_interval
    now,            \* time.time()
    start_time,     \* local start_time
    result,         \* the returned dict
    error,          \* the exception that left the function, "None" if none
    requests,       \* requests the function has sent to the remote platform
    remote,         \* state of the remote job / scenario run itself
    lastReport,     \* history: what the last status query produced
    seenState,      \* history: some report carried a state / a non-null outcome
    slow,           \* history: some status query took time
    \* execution session (server.py)
    environ,        \* os.environ: is DATAIKU_URL set, is DATAIKU_API_KEY set
    _credentials_missing,  \* module global computed at import
    _client,        \* module global: the singleton, NoClient while None
    clientsCreated, \* number of DSSClient objects get_client() has built
    execution_globals,     \* the persistent namespace
    sys_stdout,     \* what sys.stdout is bound to
    console,        \* text written to the original stream
    exec_pc,        \* "idle" between calls, "running" inside exec(code, ...)
    stdout_capture, \* local: text in the StringIO of the running call
    old_stdout,     \* local: the stream saved by the running call
    ret,            \* what the last call returned
    raised,         \* the exception the last call propagated to its caller
    code,           \* history: statements the current / last call has run
    fault,          \* history: the exception the submitted code raised
    \* two snippets run as consecutive calls, in both orders
    trial,
    \* two execute_python calls running in two threads: their locals
    conc

wvars == <<op, pc, timeout, poll_interval, now, start_time, result, error,
           requests, remote, lastReport, seenState, slow>>

evars == <<environ, _credentials_missing, _client, clientsCreated,
           execution_globals, sys_stdout, console, exec_pc, stdout_capture,
           old_stdout, ret, raised, code, fault>>

vars == <<op, pc, timeout, poll_interval, now, start_time, result, error,
          requests, remote, lastReport, seenState, slow,
          environ, _credentials_missing, _client, clientsCreated,
          execution_globals, sys_stdout, console, exec_pc, stdout_capture,
          old_stdout, ret, raised, code, fault, trial, conc>>

\* ------------------------------------------------------------ the remote
Absent == "Absent"
None == "None"

RemoteStates == {"RUNNING", "DONE", "FAILED", "ABORTED"}
RemoteTerminal == {"DONE", "FAILED", "ABORTED"}
Outcomes == {"SUCCESS", "FAILED", "ABORTED"}

\* what job.get_status() can return: a dict with or without "baseStatus",
\* with or without "state" inside it, with or without a flat "state"
JobPayloads ==
    {p \in [base : BOOLEAN, nested : RemoteStates \cup {Absent},
            flat : RemoteStates \cup {Absent}] :
        (~p.base) => p.nested = Absent}

\* what run.get_info() can return: "scenarioRun" / "result" / "outcome" keys
\* present or not, outcome null or set
RunInfos ==
    {i \in [run : BOOLEAN, res : BOOLEAN, outcome : Outcomes \cup {Absent, None}] :
        /\ (~i.run) => ~i.res
        /\ (~i.res) => i.outcome = Absent}

JobOps == {"wait_for_job", "build_and_wait", "run_recipe_and_wait"}
ScenarioOps == {"run_scenario_and_wait"}

NoResult == [status |-> "NONE"]
NoReport == [kind |-> "none"]
QueryFault == [kind |-> "fault"]

\* ------------------------------------------------------- pure functions
TimedOut_Inclusive(elapsed, t) == elapsed >= t

\* elapsed > timeout
TimedOut(elapsed, t) == elapsed > t

ExtractState_FlatFirst(status) ==
    IF status.flat # Absent THEN status.flat
    ELSE IF status.base /\ status.nested # Absent THEN status.nested
    ELSE "UNKNOWN"

\* status.get("baseStatus", {}).get("state", status.get("state", "UNKNOWN"))
ExtractState(status) ==
    LET flatOrUnknown == IF status.flat # Absent THEN status.flat ELSE "UNKNOWN"
        baseDict == IF status.base THEN status.nested ELSE Absent
    IN  IF baseDict # Absent THEN baseDict ELSE flatOrUnknown

IsTerminal_UnknownEnds(state) == state \in {"DONE", "FAILED", "ABORTED", "UNKNOWN"}

\* state in ("DONE", "FAILED", "ABORTED")
IsTerminal(state) == state \in {"DONE", "FAILED", "ABORTED"}

JobTimeoutResult(elapsed, t) ==
    [success |-> FALSE, status |-> "TIMEOUT", duration |-> elapsed,
     details |-> [msg |-> "Job did not complete within", seconds |-> t]]

JobTerminalResult_AlwaysSuccess(state, elapsed, status) ==
    [success |-> TRUE, status |-> state, duration |-> elapsed,
     details |-> status]

JobTerminalResult(state, elapsed, status) ==
    [success |-> (state = "DONE"), status |-> state, duration |-> elapsed,
     details |-> status]

ExtractOutcome_MissingKeyIsValue(run_info) ==
    IF run_info.run THEN run_info.outcome ELSE None

\* run_info.get("scenarioRun", {}).get("result", {}).get("outcome")
ExtractOutcome(run_info) ==
    IF run_info.run /\ run_info.res /\ run_info.outcome # Absent
    THEN run_info.outcome
    ELSE None

ScenarioTimeoutResult(elapsed, t) ==
    [success |-> FALSE, status |-> "TIMEOUT", duration |-> elapsed,
     outcome |-> None,
     details |-> [msg |-> "Scenario did not complete within", seconds |-> t]]

ScenarioDoneResult_SuccessWhenDone(state, elapsed, run_info) ==
    [success |-> TRUE, status |-> "DONE", duration |-> elapsed,
     outcome |-> state, details |-> run_info]

ScenarioDoneResult(state, elapsed, run_info) ==
    [success |-> (state = "SUCCESS"), status |-> "DONE", duration |-> elapsed,
     outcome |-> state, details |-> run_info]

\* ----------------------------------------------------------------- Init
WaitVarsInit ==
    /\ op = "none"
    /\ pc = "idle"
    /\ timeout = 0
    /\ poll_interval = 0
    /\ now \in 0..MaxStart
    /\ start_time = 0
    /\ result = NoResult
    /\ error = None
    /\ requests = <<>>
    /\ remote \in {None} \cup RemoteStates
    /\ lastReport = NoReport
    /\ seenState = FALSE
    /\ slow = FALSE

\* -------------------------------------------------------------- actions
\* wait_for_job(job, timeout, poll_interval) up to the loop: the job exists
CallWaitForJob(t, p) ==
    /\ UNCHANGED <<evars, trial, conc>>
    /\ pc = "idle"
    /\ remote # None
    /\ op' = "wait_for_job"
    /\ timeout' = t
    /\ poll_interval' = p
    /\ start_time' = now
    /\ pc' = "polling"
    /\ UNCHANGED <<now, result, error, requests, remote, lastReport, seenState, slow>>

CallBuildAndWait_PollOne(t) ==
    /\ UNCHANGED <<evars, trial, conc>>
    /\ pc = "idle"
    /\ remote = None
    /\ op' = "build_and_wait"
    /\ requests' = Append(requests, "build")
    /\ remote' = "RUNNING"
    /\ timeout' = t
    /\ poll_interval' = 1
    /\ start_time' = now
    /\ pc' = "polling"
    /\ UNCHANGED <<now, result, error, lastReport, seenState, slow>>

\* build_and_wait up to the loop of wait_for_job: dataset.build(), then
\* wait_for_job(job, timeout=timeout) with the default poll_interval
CallBuildAndWait(t) ==
    /\ UNCHANGED <<evars, trial, conc>>
    /\ pc = "idle"
    /\ remote = None
    /\ op' = "build_and_wait"
    /\ requests' = Append(requests, "build")
    /\ remote' = "RUNNING"
    /\ timeout' = t
    /\ poll_interval' = DefaultPollInterval
    /\ start_time' = now
    /\ pc' = "polling"
    /\ UNCHANGED <<now, result, error, lastReport, seenState, slow>>

\* run_recipe_and_wait up to the loop of wait_for_job: recipe.run()
CallRunRecipeAndWait(t) ==
    /\ UNCHANGED <<evars, trial, conc>>
    /\ pc = "idle"
    /\ remote = None
    /\ op' = "run_recipe_and_wait"
    /\ requests' = Append(requests, "run")
    /\ remote' = "RUNNING"
    /\ timeout' = t
    /\ poll_interval' = DefaultPollInterval
    /\ start_time' = now
    /\ pc' = "polling"
    /\ UNCHANGED <<now, result, error, lastReport, seenState, slow>>

\* run_scenario_and_wait up to its loop: scenario.run(), start_time
CallRunScenarioAndWait(t) ==
    /\ UNCHANGED <<evars, trial, conc>>
    /\ pc = "idle"
    /\ remote = None
    /\ op' = "run_scenario_and_wait"
    /\ requests' = Append(requests, "run")
    /\ remote' = "RUNNING"
    /\ timeout' = t
    /\ poll_interval' = ScenarioSleep
    /\ start_time' = now
    /\ pc' = "polling"
    /\ UNCHANGED <<now, result, error, lastReport, seenState, slow>>

JobTimeout_Cancelling ==
    /\ UNCHANGED <<evars, trial, conc>>
    /\ pc = "polling"
    /\ op \in JobOps
    /\ LET elapsed == now - start_time IN
        /\ TimedOut(elapsed, timeout)
        /\ result' = JobTimeoutResult(elapsed, timeout)
    /\ requests' = Append(requests, "abort")
    /\ remote' = "ABORTED"
    /\ pc' = "returned"
    /\ UNCHANGED <<op, timeout, poll_interval, now, start_time, error,
                   lastReport, seenState, slow>>

JobTimeout_KeepsWaiting ==
    /\ UNCHANGED <<evars, trial, conc>>
    /\ pc = "polling"
    /\ op \in JobOps
    /\ LET elapsed == now - start_time IN
        /\ TimedOut(elapsed, timeout)
        /\ result' = JobTimeoutResult(elapsed, timeout)
    /\ pc' = "polling"
    /\ UNCHANGED <<op, timeout, poll_interval, now, start_time, error,
                   requests, remote, lastReport, seenState, slow>>

\* one iteration of the loop of wait_for_job that finds elapsed > timeout
JobTimeout ==
    /\ UNCHANGED <<evars, trial, conc>>
    /\ pc = "polling"
    /\ op \in JobOps
    /\ LET elapsed == now - start_time IN
        /\ TimedOut(elapsed, timeout)
        /\ result' = JobTimeoutResult(elapsed, timeout)
    /\ pc' = "returned"
    /\ UNCHANGED <<op, timeout, poll_interval, now, start_time, error,
                   requests, remote, lastReport, seenState, slow>>

JobPoll_SummarisedDetails(status, q) ==
    /\ UNCHANGED <<evars, trial, conc>>
    /\ pc = "polling"
    /\ op \in JobOps
    /\ LET elapsed == now - start_time
           state == ExtractState(status)
       IN
        /\ ~TimedOut(elapsed, timeout)
        /\ requests' = Append(requests, "get_status")
        /\ lastReport' = status
        /\ seenState' = (seenState \/ status.nested # Absent \/ status.flat # Absent)
        /\ slow' = (slow \/ q > 0)
        /\ IF IsTerminal(state)
           THEN /\ result' = JobTerminalResult(state, elapsed,
                                  [msg |-> "Job ended", seconds |-> elapsed])
                /\ pc' = "returned"
                /\ now' = now + q
           ELSE /\ now' = now + q + poll_interval
                /\ UNCHANGED <<result, pc>>
    /\ UNCHANGED <<op, timeout, poll_interval, start_time, error, remote>>

\* one iteration of the loop of wait_for_job that queries the status:
\* the query takes q seconds and returns status
JobPoll(status, q) ==
    /\ UNCHANGED <<evars, trial, conc>>
    /\ pc = "polling"
    /\ op \in JobOps
    /\ LET elapsed == now - start_time
           state == ExtractState(status)
       IN
        /\ ~TimedOut(elapsed, timeout)
        /\ requests' = Append(requests, "get_status")
        /\ lastReport' = status
        /\ seenState' = (seenState \/ status.nested # Absent \/ status.flat # Absent)
        /\ slow' = (slow \/ q > 0)
        /\ IF IsTerminal(state)
           THEN /\ result' = JobTerminalResult(state, elapsed, status)
                /\ pc' = "returned"
                /\ now' = now + q
           ELSE /\ now' = now + q + poll_interval
                /\ UNCHANGED <<result, pc>>
    /\ UNCHANGED <<op, timeout, poll_interval, start_time, error, remote>>

JobQueryRaises_ReportsUnknown(q) ==
    /\ UNCHANGED <<evars, trial, conc>>
    /\ pc = "polling"
    /\ op \in JobOps
    /\ ~TimedOut(now - start_time, timeout)
    /\ requests' = Append(requests, "get_status")
    /\ slow' = (slow \/ q > 0)
    /\ now' = now + q
    /\ lastReport' = QueryFault
    /\ result' = [success |-> FALSE, status |-> "UNKNOWN",
                  duration |-> now - start_time, details |-> QueryFault]
    /\ pc' = "returned"
    /\ UNCHANGED <<op, timeout, poll_interval, start_time, error, remote,
                   seenState>>

\* one iteration of the loop of wait_for_job whose job.get_status() raises
JobQueryRaises(q) ==
    /\ UNCHANGED <<evars, trial, conc>>
    /\ pc = "polling"
    /\ op \in JobOps
    /\ ~TimedOut(now - start_time, timeout)
    /\ requests' = Append(requests, "get_status")
    /\ slow' = (slow \/ q > 0)
    /\ now' = now + q
    /\ lastReport' = QueryFault
    /\ error' = "QueryError"
    /\ pc' = "raised"
    /\ UNCHANGED <<op, timeout, poll_interval, start_time, result, remote,
                   seenState>>

ScenarioTimeout_AtDeadline ==
    /\ UNCHANGED <<evars, trial, conc>>
    /\ pc = "polling"
    /\ op \in ScenarioOps
    /\ LET elapsed == now - start_time IN
        /\ elapsed >= timeout
        /\ result' = ScenarioTimeoutResult(elapsed, timeout)
    /\ pc' = "returned"
    /\ UNCHANGED <<op, timeout, poll_interval, now, start_time, error,
                   requests, remote, lastReport, seenState, slow>>

\* one iteration of the loop of run_scenario_and_wait with elapsed > timeout
ScenarioTimeout ==
    /\ UNCHANGED <<evars, trial, conc>>
    /\ pc = "polling"
    /\ op \in ScenarioOps
    /\ LET elapsed == now - start_time IN
        /\ TimedOut(elapsed, timeout)
        /\ result' = ScenarioTimeoutResult(elapsed, timeout)
    /\ pc' = "returned"
    /\ UNCHANGED <<op, timeout, poll_interval, now, start_time, error,
                   requests, remote, lastReport, seenState, slow>>

\* one iteration of the loop of run_scenario_and_wait that queries the run
ScenarioPoll(run_info, q) ==
    /\ UNCHANGED <<evars, trial, conc>>
    /\ pc = "polling"
    /\ op \in ScenarioOps
    /\ LET elapsed == now - start_time
           state == ExtractOutcome(run_info)
       IN
        /\ ~TimedOut(elapsed, timeout)
        /\ requests' = Append(requests, "get_info")
        /\ lastReport' = run_info
        /\ seenState' = (seenState \/ run_info.outcome \notin {Absent, None})
        /\ slow' = (slow \/ q > 0)
        /\ IF state # None
           THEN /\ result' = ScenarioDoneResult(state, elapsed, run_info)
                /\ pc' = "returned"
                /\ now' = now + q
           ELSE /\ now' = now + q + ScenarioSleep
                /\ UNCHANGED <<result, pc>>
    /\ UNCHANGED <<op, timeout, poll_interval, start_time, error, remote>>

ScenarioQueryRaises_Retrying(q) ==
    /\ UNCHANGED <<evars, trial, conc>>
    /\ pc = "polling"
    /\ op \in ScenarioOps
    /\ ~TimedOut(now - start_time, timeout)
    /\ requests' = Append(requests, "get_info")
    /\ slow' = (slow \/ q > 0)
    /\ now' = now + q + ScenarioSleep
    /\ lastReport' = QueryFault
    /\ UNCHANGED <<op, pc, timeout, poll_interval, start_time, result, error,
                   remote, seenState>>

\* one iteration of run_scenario_and_wait whose run.get_info() raises
ScenarioQueryRaises(q) ==
    /\ UNCHANGED <<evars, trial, conc>>
    /\ pc = "polling"
    /\ op \in ScenarioOps
    /\ ~TimedOut(now - start_time, timeout)
    /\ requests' = Append(requests, "get_info")
    /\ slow' = (slow \/ q > 0)
    /\ now' = now + q
    /\ lastReport' = QueryFault
    /\ error' = "QueryError"
    /\ pc' = "raised"
    /\ UNCHANGED <<op, timeout, poll_interval, start_time, result, remote,
                   seenState>>

\* the remote platform finishes the operation on its own
RemoteProgress ==
    /\ UNCHANGED <<evars, trial, conc>>
    /\ remote = "RUNNING"
    /\ remote' \in RemoteTerminal
    /\ UNCHANGED <<op, pc, timeout, poll_interval, now, start_time, result,
                   error, requests, lastReport, seenState, slow>>

\* ===================================================== execution session
NoClient == 0

IntVal(n) == [t |-> "int", v |-> n]
ClientVal(n) == [t |-> "DSSClient", v |-> n]
Module == [t |-> "module", v |-> 0]
Unbound == [t |-> "unbound", v |-> 0]

\* names the pre-populated namespace holds, and names submitted code uses
SeedNames == {"__builtins__", "helpers", "jobs", "inspection", "search", "export"}
UserNames == {"x", "y", "client"}
Names == SeedNames \cup UserNames

\* execution_globals as the module body leaves it
SeedGlobals == [n \in Names |-> IF n \in SeedNames THEN Module ELSE Unbound]

\* the functions helpers/jobs.py defines
JobsDefined ==
    {"wait_for_job", "build_and_wait", "run_scenario_and_wait",
     "run_recipe_and_wait", "get_job_log"}

\* the functions list_helpers and the instructions list under helpers.jobs
AdvertisedJobs ==
    {"build_and_wait", "run_scenario_and_wait", "run_recipe_and_wait",
     "wait_for_job", "get_job_log", "compute_and_apply_schema"}

\* the statements submitted code is made of; ("attr", f) is jobs.f, the
\* lookup a call of an advertised helpers.jobs function starts with
Stmt(o, n, v) == [op |-> o, name |-> n, val |-> v]
Statements ==
    {Stmt("attr", f, 0) : f \in AdvertisedJobs} \cup
    {Stmt("assign", "x", 1), Stmt("assign", "x", 2), Stmt("assign", "y", 1),
     Stmt("assign", "client", 1),
     Stmt("print", "x", 0), Stmt("print", "y", 0), Stmt("print", "client", 0),
     Stmt("del", "x", 0), Stmt("del", "client", 0),
     Stmt("printlit", "ok", 0),
     Stmt("raise", "RuntimeError", 0), Stmt("raise", "SystemExit", 0)}

\* str(value) as print writes it
Str(val) ==
    CASE val.t = "int" -> <<"1", "2">>[val.v]
      [] val.t = "DSSClient" -> "<dataikuapi.DSSClient object>"
      [] OTHER -> "<module>"

NameErrorMessage == [n \in UserNames |->
    CASE n = "x" -> "name 'x' is not defined"
      [] n = "y" -> "name 'y' is not defined"
      [] OTHER -> "name 'client' is not defined"]

AttributeErrorMessage == [f \in AdvertisedJobs \ JobsDefined |->
    "module 'helpers.jobs' has no attribute 'compute_and_apply_schema'"]

Effect_FaultClears(g, s) ==
    CASE s.op = "assign" ->
            [g |-> [g EXCEPT ![s.name] = IntVal(s.val)], out |-> <<>>,
             exc |-> None, msg |-> ""]
      [] s.op = "print" ->
            IF g[s.name] = Unbound
            THEN [g |-> g, out |-> <<>>, exc |-> "NameError",
                  msg |-> NameErrorMessage[s.name]]
            ELSE [g |-> g, out |-> <<Str(g[s.name]), "\n">>, exc |-> None,
                  msg |-> ""]
      [] s.op = "del" ->
            IF g[s.name] = Unbound
            THEN [g |-> g, out |-> <<>>, exc |-> "NameError",
                  msg |-> NameErrorMessage[s.name]]
            ELSE [g |-> [g EXCEPT ![s.name] = Unbound], out |-> <<>>,
                  exc |-> None, msg |-> ""]
      [] s.op = "printlit" ->
            [g |-> g, out |-> <<s.name, "\n">>, exc |-> None, msg |-> ""]
      [] s.op = "attr" ->
            IF s.name \in JobsDefined
            THEN [g |-> g, out |-> <<>>, exc |-> None, msg |-> ""]
            ELSE [g |-> g, out |-> <<>>, exc |-> "AttributeError",
                  msg |-> AttributeErrorMessage[s.name]]
      [] OTHER ->
            [g |-> SeedGlobals, out |-> <<>>, exc |-> s.name, msg |-> "boom"]

\* what one statement does to the namespace g: the new namespace, the text it
\* prints, the exception it raises (None when it completes) and its message
Effect(g, s) ==
    CASE s.op = "assign" ->
            [g |-> [g EXCEPT ![s.name] = IntVal(s.val)], out |-> <<>>,
             exc |-> None, msg |-> ""]
      [] s.op = "print" ->
            IF g[s.name] = Unbound
            THEN [g |-> g, out |-> <<>>, exc |-> "NameError",
                  msg |-> NameErrorMessage[s.name]]
            ELSE [g |-> g, out |-> <<Str(g[s.name]), "\n">>, exc |-> None,
                  msg |-> ""]
      [] s.op = "del" ->
            IF g[s.name] = Unbound
            THEN [g |-> g, out |-> <<>>, exc |-> "NameError",
                  msg |-> NameErrorMessage[s.name]]
            ELSE [g |-> [g EXCEPT ![s.name] = Unbound], out |-> <<>>,
                  exc |-> None, msg |-> ""]
      [] s.op = "printlit" ->
            [g |-> g, out |-> <<s.name, "\n">>, exc |-> None, msg |-> ""]
      [] s.op = "attr" ->
            IF s.name \in JobsDefined
            THEN [g |-> g, out |-> <<>>, exc |-> None, msg |-> ""]
            ELSE [g |-> g, out |-> <<>>, exc |-> "AttributeError",
                  msg |-> AttributeErrorMessage[s.name]]
      [] OTHER ->
            [g |-> g, out |-> <<>>, exc |-> s.name, msg |-> "boom"]

\* except Exception: the classes the handler catches
IsException(kind) ==
    kind \in {"RuntimeError", "NameError", "ValueError", "AttributeError"}

NoReturn == [kind |-> "none", text |-> <<>>]
NoFault == [kind |-> None, msg |-> ""]
Text(tokens) == [kind |-> "text", text |-> tokens]

Placeholder == "(executed successfully, no output)"
Diagnostic == "ERROR: Dataiku credentials not configured."

\* traceback.format_exc()
FormatExc(kind, msg) ==
    <<"Traceback (most recent call last):\n", kind, ": ", msg, "\n">>

SuccessReturn_NoPlaceholder(output) == output

\* output if output else "(executed successfully, no output)"
SuccessReturn(output) == IF output # <<>> THEN output ELSE <<Placeholder>>

\* f"{error_output}\nError: {type(e).__name__}: {e}\n\n{tb}"
ErrorReturn(error_output, kind, msg) ==
    error_output \o <<"\nError: ", kind, ": ", msg, "\n\n">> \o FormatExc(kind, msg)

\* not _dataiku_url or not _dataiku_api_key
CredentialsMissing(env) == (~env.url) \/ (~env.key)

GetDataikuClient_AlwaysNew(c, n) == n + 1

\* get_dataiku_client(): the singleton after the call, n clients built so far
GetDataikuClient(c, n) == IF c = NoClient THEN n + 1 ELSE c

ExecVarsInit ==
    /\ environ \in [url : BOOLEAN, key : BOOLEAN]
    /\ _credentials_missing = CredentialsMissing(environ)
    /\ _client = NoClient
    /\ clientsCreated = 0
    /\ execution_globals = SeedGlobals
    /\ sys_stdout = "original"
    /\ console = <<>>
    /\ exec_pc = "idle"
    /\ stdout_capture = <<>>
    /\ old_stdout = None
    /\ ret = NoReturn
    /\ raised = None
    /\ code = <<>>
    /\ fault = NoFault

ExecuteCredentialsMissing_AcquiresFirst ==
    /\ UNCHANGED <<wvars, trial, conc>>
    /\ exec_pc = "idle"
    /\ _credentials_missing
    /\ _client' = GetDataikuClient(_client, clientsCreated)
    /\ clientsCreated' = IF _client = NoClient THEN clientsCreated + 1
                         ELSE clientsCreated
    /\ execution_globals' = [execution_globals EXCEPT !["client"] = ClientVal(_client')]
    /\ ret' = Text(<<Diagnostic>>)
    /\ raised' = None
    /\ code' = <<>>
    /\ fault' = NoFault
    /\ UNCHANGED <<environ, _credentials_missing, sys_stdout, console, exec_pc,
                   stdout_capture, old_stdout>>

ExecuteCredentialsMissing_ChecksEnviron ==
    /\ UNCHANGED <<wvars, trial, conc>>
    /\ exec_pc = "idle"
    /\ CredentialsMissing(environ)
    /\ ret' = Text(<<Diagnostic>>)
    /\ raised' = None
    /\ code' = <<>>
    /\ fault' = NoFault
    /\ UNCHANGED <<environ, _credentials_missing, _client, clientsCreated,
                   execution_globals, sys_stdout, console, exec_pc,
                   stdout_capture, old_stdout>>

\* execute_python with _credentials_missing: returns the diagnostic
ExecuteCredentialsMissing ==
    /\ UNCHANGED <<wvars, trial, conc>>
    /\ exec_pc = "idle"
    /\ _credentials_missing
    /\ ret' = Text(<<Diagnostic>>)
    /\ raised' = None
    /\ code' = <<>>
    /\ fault' = NoFault
    /\ UNCHANGED <<environ, _credentials_missing, _client, clientsCreated,
                   execution_globals, sys_stdout, console, exec_pc,
                   stdout_capture, old_stdout>>

ExecuteAcquireFails_RedirectsFirst ==
    /\ UNCHANGED <<wvars, trial, conc>>
    /\ exec_pc = "idle"
    /\ ~_credentials_missing
    /\ _client = NoClient
    /\ CredentialsMissing(environ)
    /\ ret' = NoReturn
    /\ raised' = "ValueError"
    /\ code' = <<>>
    /\ fault' = NoFault
    /\ sys_stdout' = "capture"
    /\ UNCHANGED <<environ, _credentials_missing, _client, clientsCreated,
                   execution_globals, console, exec_pc,
                   stdout_capture, old_stdout>>

\* execute_python whose get_dataiku_client() raises: get_client() finds the
\* environment unset and its ValueError leaves execute_python
ExecuteAcquireFails ==
    /\ UNCHANGED <<wvars, trial, conc>>
    /\ exec_pc = "idle"
    /\ ~_credentials_missing
    /\ _client = NoClient
    /\ CredentialsMissing(environ)
    /\ ret' = NoReturn
    /\ raised' = "ValueError"
    /\ code' = <<>>
    /\ fault' = NoFault
    /\ UNCHANGED <<environ, _credentials_missing, _client, clientsCreated,
                   execution_globals, sys_stdout, console, exec_pc,
                   stdout_capture, old_stdout>>

ExecuteBegin_FreshNamespace ==
    /\ UNCHANGED <<wvars, trial, conc>>
    /\ exec_pc = "idle"
    /\ ~_credentials_missing
    /\ _client # NoClient \/ ~CredentialsMissing(environ)
    /\ _client' = GetDataikuClient(_client, clientsCreated)
    /\ clientsCreated' = IF _client = NoClient THEN clientsCreated + 1
                         ELSE clientsCreated
    /\ execution_globals' = [SeedGlobals EXCEPT !["client"] = ClientVal(_client')]
    /\ stdout_capture' = <<>>
    /\ old_stdout' = sys_stdout
    /\ sys_stdout' = "capture"
    /\ exec_pc' = "running"
    /\ ret' = NoReturn
    /\ raised' = None
    /\ code' = <<>>
    /\ fault' = NoFault
    /\ UNCHANGED <<environ, _credentials_missing, console>>

ExecuteBegin_BindsIfUnbound ==
    /\ UNCHANGED <<wvars, trial, conc>>
    /\ exec_pc = "idle"
    /\ ~_credentials_missing
    /\ _client # NoClient \/ ~CredentialsMissing(environ)
    /\ _client' = GetDataikuClient(_client, clientsCreated)
    /\ clientsCreated' = IF _client = NoClient THEN clientsCreated + 1
                         ELSE clientsCreated
    /\ execution_globals' =
            IF execution_globals["client"] = Unbound
            THEN [execution_globals EXCEPT !["client"] = ClientVal(_client')]
            ELSE execution_globals
    /\ stdout_capture' = <<>>
    /\ old_stdout' = sys_stdout
    /\ sys_stdout' = "capture"
    /\ exec_pc' = "running"
    /\ ret' = NoReturn
    /\ raised' = None
    /\ code' = <<>>
    /\ fault' = NoFault
    /\ UNCHANGED <<environ, _credentials_missing, console>>

\* execute_python up to exec(code, execution_globals): the client is put in
\* the namespace and sys.stdout is redirected to a fresh StringIO
ExecuteBegin ==
    /\ UNCHANGED <<wvars, trial, conc>>
    /\ exec_pc = "idle"
    /\ ~_credentials_missing
    /\ _client # NoClient \/ ~CredentialsMissing(environ)
    /\ _client' = GetDataikuClient(_client, clientsCreated)
    /\ clientsCreated' = IF _client = NoClient THEN clientsCreated + 1
                         ELSE clientsCreated
    /\ execution_globals' = [execution_globals EXCEPT !["client"] = ClientVal(_client')]
    /\ stdout_capture' = <<>>
    /\ old_stdout' = sys_stdout
    /\ sys_stdout' = "capture"
    /\ exec_pc' = "running"
    /\ ret' = NoReturn
    /\ raised' = None
    /\ code' = <<>>
    /\ fault' = NoFault
    /\ UNCHANGED <<environ, _credentials_missing, console>>

ExecStatement_NoFinally(s) ==
    /\ UNCHANGED <<wvars, trial, conc>>
    /\ exec_pc = "running"
    /\ Len(code) < MaxCodeLen
    /\ LET e == Effect(execution_globals, s) IN
        /\ code' = Append(code, s)
        /\ execution_globals' = e.g
        /\ IF e.exc = None
           THEN /\ IF sys_stdout = "capture"
                   THEN /\ stdout_capture' = stdout_capture \o e.out
                        /\ UNCHANGED console
                   ELSE /\ console' = console \o e.out
                        /\ UNCHANGED stdout_capture
                /\ UNCHANGED <<sys_stdout, exec_pc, old_stdout, ret, raised,
                               fault>>
           ELSE /\ fault' = [kind |-> e.exc, msg |-> e.msg]
                /\ IF IsException(e.exc)
                   THEN /\ ret' = Text(ErrorReturn(stdout_capture, e.exc, e.msg))
                        /\ raised' = None
                   ELSE /\ ret' = NoReturn
                        /\ raised' = e.exc
                /\ exec_pc' = "idle"
                /\ stdout_capture' = <<>>
                /\ old_stdout' = None
                /\ UNCHANGED <<console, sys_stdout>>
    /\ UNCHANGED <<environ, _credentials_missing, _client, clientsCreated>>

\* exec runs the next statement s of the submitted code; when s raises, the
\* except clause and the finally clause of execute_python run and the call
\* ends: an Exception becomes the returned text, anything else propagates
ExecStatement(s) ==
    /\ UNCHANGED <<wvars, trial, conc>>
    /\ exec_pc = "running"
    /\ Len(code) < MaxCodeLen
    /\ LET e == Effect(execution_globals, s) IN
        /\ code' = Append(code, s)
        /\ execution_globals' = e.g
        /\ IF e.exc = None
           THEN /\ IF sys_stdout = "capture"
                   THEN /\ stdout_capture' = stdout_capture \o e.out
                        /\ UNCHANGED console
                   ELSE /\ console' = console \o e.out
                        /\ UNCHANGED stdout_capture
                /\ UNCHANGED <<sys_stdout, exec_pc, old_stdout, ret, raised,
                               fault>>
           ELSE /\ fault' = [kind |-> e.exc, msg |-> e.msg]
                /\ IF IsException(e.exc)
                   THEN /\ ret' = Text(ErrorReturn(stdout_capture, e.exc, e.msg))
                        /\ raised' = None
                   ELSE /\ ret' = NoReturn
                        /\ raised' = e.exc
                /\ sys_stdout' = old_stdout
                /\ exec_pc' = "idle"
                /\ stdout_capture' = <<>>
                /\ old_stdout' = None
                /\ UNCHANGED console
    /\ UNCHANGED <<environ, _credentials_missing, _client, clientsCreated>>

\* the submitted code has run to its end: the try body returns the output
\* and the finally clause restores sys.stdout
ExecuteReturn ==
    /\ UNCHANGED <<wvars, trial, conc>>
    /\ exec_pc = "running"
    /\ ret' = Text(SuccessReturn(stdout_capture))
    /\ raised' = None
    /\ sys_stdout' = old_stdout
    /\ exec_pc' = "idle"
    /\ stdout_capture' = <<>>
    /\ old_stdout' = None
    /\ UNCHANGED <<environ, _credentials_missing, _client, clientsCreated,
                   execution_globals, console, code, fault>>

\* the process environment is changed (os.environ is mutable)
EnvironChange ==
    /\ UNCHANGED <<wvars, trial, conc>>
    /\ environ' \in [url : BOOLEAN, key : BOOLEAN] \ {environ}
    /\ UNCHANGED <<_credentials_missing, _client, clientsCreated,
                   execution_globals, sys_stdout, console, exec_pc,
                   stdout_capture, old_stdout, ret, raised, code, fault>>

ExecNext ==
    \/ ExecuteCredentialsMissing
    \/ ExecuteAcquireFails
    \/ ExecuteBegin
    \/ \E s \in Statements : ExecStatement(s)
    \/ ExecuteReturn
    \/ EnvironChange

\* ------------------------------------------------------- specifications
\* the waiter before any call, the session as the module body leaves it
WaitVarsIdle ==
    /\ op = "none"
    /\ pc = "idle"
    /\ timeout = 0
    /\ poll_interval = 0
    /\ now = 0
    /\ start_time = 0
    /\ result = NoResult
    /\ error = None
    /\ requests = <<>>
    /\ remote = None
    /\ lastReport = NoReport
    /\ seenState = FALSE
    /\ slow = FALSE

ExecVarsIdle ==
    /\ environ = [url |-> TRUE, key |-> TRUE]
    /\ _credentials_missing = FALSE
    /\ _client = NoClient
    /\ clientsCreated = 0
    /\ execution_globals = SeedGlobals
    /\ sys_stdout = "original"
    /\ console = <<>>
    /\ exec_pc = "idle"
    /\ stdout_capture = <<>>
    /\ old_stdout = None
    /\ ret = NoReturn
    /\ raised = None
    /\ code = <<>>
    /\ fault = NoFault

NoTrial == [stage |-> "none"]

NoConc == [stage |-> "none"]

WaitInit == WaitVarsInit /\ ExecVarsIdle /\ trial = NoTrial /\ conc = NoConc
ExecInit == ExecVarsInit /\ WaitVarsIdle /\ trial = NoTrial /\ conc = NoConc

ExecSpec == ExecInit /\ [][ExecNext]_vars

ExecTypeOK ==
    /\ exec_pc \in {"idle", "running"}
    /\ sys_stdout \in {"original", "capture"}
    /\ _client \in 0..1
    /\ Len(code) <= MaxCodeLen

WaitNext ==
    \/ \E t \in 1..MaxTimeout, p \in 1..MaxPoll : CallWaitForJob(t, p)
    \/ \E t \in 1..MaxTimeout : CallBuildAndWait(t)
    \/ \E t \in 1..MaxTimeout : CallRunRecipeAndWait(t)
    \/ \E t \in 1..MaxTimeout : CallRunScenarioAndWait(t)
    \/ JobTimeout
    \/ \E status \in JobPayloads, q \in 0..MaxQueryTime : JobPoll(status, q)
    \/ \E q \in 0..MaxQueryTime : JobQueryRaises(q)
    \/ ScenarioTimeout
    \/ \E run_info \in RunInfos, q \in 0..MaxQueryTime : ScenarioPoll(run_info, q)
    \/ \E q \in 0..MaxQueryTime : ScenarioQueryRaises(q)
    \/ RemoteProgress

WaitSpec == WaitInit /\ [][WaitNext]_vars

\* the iterations of the two while True loops: a loop that has started keeps
\* running (get_status, get_info and time.sleep return)
WaitLoop ==
    \/ JobTimeout
    \/ \E status \in JobPayloads, q \in 0..MaxQueryTime : JobPoll(status, q)
    \/ \E q \in 0..MaxQueryTime : JobQueryRaises(q)
    \/ ScenarioTimeout
    \/ \E run_info \in RunInfos, q \in 0..MaxQueryTime : ScenarioPoll(run_info, q)
    \/ \E q \in 0..MaxQueryTime : ScenarioQueryRaises(q)

WaitLiveSpec == WaitInit /\ [][WaitNext]_vars /\ WF_vars(WaitLoop)

WaitTypeOK ==
    /\ pc \in {"idle", "polling", "returned", "raised"}
    /\ op \in {"none"} \cup JobOps \cup ScenarioOps
    /\ remote \in {None} \cup RemoteStates

\* ------------------------------------------- a whole call as a function
\* exec(code, execution_globals) with sys.stdout captured: the namespace and
\* the captured output when the statements end or one of them raises
RECURSIVE Exec(_, _, _)
Exec(g, out, stmts) ==
    IF stmts = <<>>
    THEN [g |-> g, out |-> out, exc |-> None, msg |-> ""]
    ELSE LET e == Effect(g, Head(stmts)) IN
         IF e.exc # None
         THEN [g |-> e.g, out |-> out, exc |-> e.exc, msg |-> e.msg]
         ELSE Exec(e.g, out \o e.out, Tail(stmts))

execute_python_ResetOnError(sess, stmts) ==
    IF sess.flag
    THEN [sess |-> sess, ret |-> Text(<<Diagnostic>>), raised |-> None]
    ELSE IF sess.client = NoClient /\ CredentialsMissing(sess.env)
    THEN [sess |-> sess, ret |-> NoReturn, raised |-> "ValueError"]
    ELSE LET c == GetDataikuClient(sess.client, sess.created)
             r == Exec([sess.g EXCEPT !["client"] = ClientVal(c)], <<>>, stmts)
         IN  [sess |-> [sess EXCEPT !.client = c,
                                    !.created = IF sess.client = NoClient
                                                THEN @ + 1 ELSE @,
                                    !.g = IF r.exc = None THEN r.g
                                          ELSE SeedGlobals],
              ret |-> IF r.exc = None THEN Text(SuccessReturn(r.out))
                      ELSE IF IsException(r.exc)
                           THEN Text(ErrorReturn(r.out, r.exc, r.msg))
                           ELSE NoReturn,
              raised |-> IF r.exc # None /\ ~IsException(r.exc) THEN r.exc
                         ELSE None]

\* execute_python(code) on the session sess (the import-time flag, the
\* environment, the singleton client, the namespace): the session it
\* leaves, the text it returns, the exception that leaves it
execute_python(sess, stmts) ==
    IF sess.flag
    THEN [sess |-> sess, ret |-> Text(<<Diagnostic>>), raised |-> None]
    ELSE IF sess.client = NoClient /\ CredentialsMissing(sess.env)
    THEN [sess |-> sess, ret |-> NoReturn, raised |-> "ValueError"]
    ELSE LET c == GetDataikuClient(sess.client, sess.created)
             r == Exec([sess.g EXCEPT !["client"] = ClientVal(c)], <<>>, stmts)
         IN  [sess |-> [sess EXCEPT !.client = c,
                                    !.created = IF sess.client = NoClient
                                                THEN @ + 1 ELSE @,
                                    !.g = r.g],
              ret |-> IF r.exc = None THEN Text(SuccessReturn(r.out))
                      ELSE IF IsException(r.exc)
                           THEN Text(ErrorReturn(r.out, r.exc, r.msg))
                           ELSE NoReturn,
              raised |-> IF r.exc # None /\ ~IsException(r.exc) THEN r.exc
                         ELSE None]

\* what a caller sees of a call
Seen(call) == [ret |-> call.ret, raised |-> call.raised]
NotRun == [ret |-> NoReturn, raised |-> None]

\* the code of one call
Snippets == UNION {[1..n -> Statements] : n \in 0..MaxSnippetLen}

\* the sessions two calls can start from: before any call (flag set or not,
\* environment set or not), or after calls that created the client and
\* left x and y bound or not
Sessions ==
    {[flag |-> f, env |-> [url |-> u, key |-> TRUE], client |-> NoClient,
      created |-> 0, g |-> SeedGlobals] : f \in BOOLEAN, u \in BOOLEAN}
    \cup
    {[flag |-> FALSE, env |-> [url |-> TRUE, key |-> TRUE], client |-> 1,
      created |-> 1,
      g |-> [SeedGlobals EXCEPT !["x"] = vx, !["y"] = vy,
                                !["client"] = ClientVal(1)]] :
        vx \in {Unbound, IntVal(1), IntVal(2)}, vy \in {Unbound, IntVal(1)}}

OrderInit ==
    /\ WaitVarsIdle
    /\ ExecVarsIdle
    /\ conc = NoConc
    /\ trial \in [stage : {"drawn"}, sess : Sessions, a : Snippets, b : Snippets,
                  ab : [a : {NotRun}, b : {NotRun}],
                  ba : [a : {NotRun}, b : {NotRun}]]

\* snippet a as one call, then snippet b as the next call
RunAThenB ==
    /\ trial.stage = "drawn"
    /\ LET first == execute_python(trial.sess, trial.a)
           second == execute_python(first.sess, trial.b)
       IN  trial' = [trial EXCEPT !.stage = "ab",
                                  !.ab = [a |-> Seen(first), b |-> Seen(second)]]
    /\ UNCHANGED <<wvars, evars, conc>>

\* from the same session, snippet b as one call, then snippet a as the next
RunBThenA ==
    /\ trial.stage = "ab"
    /\ LET first == execute_python(trial.sess, trial.b)
           second == execute_python(first.sess, trial.a)
       IN  trial' = [trial EXCEPT !.stage = "done",
                                  !.ba = [a |-> Seen(second), b |-> Seen(first)]]
    /\ UNCHANGED <<wvars, evars, conc>>

OrderNext == RunAThenB \/ RunBThenA

OrderSpec == OrderInit /\ [][OrderNext]_vars

\* ------------------------------------------- two calls in two threads
Threads == {1, 2}
Other(t) == 3 - t

\* the StringIO a thread creates, as a value of sys.stdout
BufferOf(t) == IF t = 1 THEN "capture1" ELSE "capture2"

\* the locals of one call: position, what `_client is None` gave, old_stdout,
\* the contents of its stdout_capture, the statements run, the result;
\* printed is history: what its own statements printed
ThreadIdle ==
    [pc |-> "idle", sawNone |-> FALSE, old |-> None, buf |-> <<>>, n |-> 0,
     printed |-> <<>>, exc |-> NoFault, ret |-> NoReturn, raised |-> None]

ConcInit ==
    /\ WaitVarsIdle
    /\ ExecVarsIdle
    /\ trial = NoTrial
    /\ conc = [stage |-> "threads", th |-> [t \in Threads |-> ThreadIdle],
               lastDone |-> 0, overlap |-> FALSE]

\* the other call is between its entry and its return
Overlaps(t) == conc.th[Other(t)].pc \notin {"idle", "returned"}

\* execute_python passes the credentials check and get_dataiku_client tests
\* `_client is None`
ThreadEnter(t) ==
    /\ conc.th[t].pc = "idle"
    /\ ~_credentials_missing
    /\ conc' = [conc EXCEPT !.th[t].sawNone = (_client = NoClient),
                            !.th[t].pc = IF _client = NoClient THEN "create"
                                         ELSE "bind",
                            !.overlap = @ \/ Overlaps(t)]
    /\ UNCHANGED <<wvars, evars, trial>>

\* _client = get_client()
ThreadCreateClient(t) ==
    /\ conc.th[t].pc = "create"
    /\ ~CredentialsMissing(environ)
    /\ clientsCreated' = clientsCreated + 1
    /\ _client' = clientsCreated'
    /\ conc' = [conc EXCEPT !.th[t].pc = "bind", !.overlap = @ \/ Overlaps(t)]
    /\ UNCHANGED <<wvars, trial, environ, _credentials_missing,
                   execution_globals, sys_stdout, console, exec_pc,
                   stdout_capture, old_stdout, ret, raised, code, fault>>

\* return _client; execution_globals["client"] = ...
ThreadBind(t) ==
    /\ conc.th[t].pc = "bind"
    /\ execution_globals' = [execution_globals EXCEPT !["client"] = ClientVal(_client)]
    /\ conc' = [conc EXCEPT !.th[t].pc = "save", !.overlap = @ \/ Overlaps(t)]
    /\ UNCHANGED <<wvars, trial, environ, _credentials_missing, _client,
                   clientsCreated, sys_stdout, console, exec_pc,
                   stdout_capture, old_stdout, ret, raised, code, fault>>

\* stdout_capture = StringIO(); old_stdout = sys.stdout
ThreadSaveStdout(t) ==
    /\ conc.th[t].pc = "save"
    /\ conc' = [conc EXCEPT !.th[t].buf = <<>>, !.th[t].old = sys_stdout,
                            !.th[t].pc = "redirect",
                            !.overlap = @ \/ Overlaps(t)]
    /\ UNCHANGED <<wvars, evars, trial>>

\* sys.stdout = stdout_capture
ThreadRedirect(t) ==
    /\ conc.th[t].pc = "redirect"
    /\ sys_stdout' = BufferOf(t)
    /\ conc' = [conc EXCEPT !.th[t].pc = "exec", !.overlap = @ \/ Overlaps(t)]
    /\ UNCHANGED <<wvars, trial, environ, _credentials_missing, _client,
                   clientsCreated, execution_globals, console, exec_pc,
                   stdout_capture, old_stdout, ret, raised, code, fault>>

\* exec runs the next statement s of the code of thread t: what it prints
\* goes to whatever sys.stdout is now; when s raises, the except and the
\* finally clause run and the call ends
ThreadStatement(t, s) ==
    /\ conc.th[t].pc = "exec"
    /\ conc.th[t].n < MaxThreadCodeLen
    /\ LET e == Effect(execution_globals, s) IN
        /\ execution_globals' = e.g
        /\ IF e.exc = None
           THEN /\ IF sys_stdout = "original"
                   THEN /\ console' = console \o e.out
                        /\ conc' = [conc EXCEPT !.th[t].n = @ + 1,
                                        !.th[t].printed = @ \o e.out,
                                        !.overlap = @ \/ Overlaps(t)]
                   ELSE /\ UNCHANGED console
                        /\ LET u == CHOOSE v \in Threads : BufferOf(v) = sys_stdout
                           IN conc' = [conc EXCEPT !.th[t].n = @ + 1,
                                           !.th[t].printed = @ \o e.out,
                                           !.th[u].buf = @ \o e.out,
                                           !.overlap = @ \/ Overlaps(t)]
                /\ UNCHANGED sys_stdout
           ELSE /\ sys_stdout' = conc.th[t].old
                /\ UNCHANGED console
                /\ conc' = [conc EXCEPT
                        !.th[t].n = @ + 1,
                        !.th[t].exc = [kind |-> e.exc, msg |-> e.msg],
                        !.th[t].ret = IF IsException(e.exc)
                                      THEN Text(ErrorReturn(conc.th[t].buf, e.exc, e.msg))
                                      ELSE NoReturn,
                        !.th[t].raised = IF IsException(e.exc) THEN None ELSE e.exc,
                        !.th[t].pc = "returned",
                        !.lastDone = t,
                        !.overlap = @ \/ Overlaps(t)]
    /\ UNCHANGED <<wvars, trial, environ, _credentials_missing, _client,
                   clientsCreated, exec_pc, stdout_capture, old_stdout, ret,
                   raised, code, fault>>

ThreadReturn_NoRestore(t) ==
    /\ conc.th[t].pc = "exec"
    /\ UNCHANGED sys_stdout
    /\ conc' = [conc EXCEPT !.th[t].ret = Text(SuccessReturn(conc.th[t].buf)),
                            !.th[t].pc = "returned",
                            !.lastDone = t,
                            !.overlap = @ \/ Overlaps(t)]
    /\ UNCHANGED <<wvars, trial, environ, _credentials_missing, _client,
                   clientsCreated, execution_globals, console, exec_pc,
                   stdout_capture, old_stdout, ret, raised, code, fault>>

\* the code of thread t has run to its end: output = getvalue(), finally
\* sys.stdout = old_stdout, return
ThreadReturn(t) ==
    /\ conc.th[t].pc = "exec"
    /\ sys_stdout' = conc.th[t].old
    /\ conc' = [conc EXCEPT !.th[t].ret = Text(SuccessReturn(conc.th[t].buf)),
                            !.th[t].pc = "returned",
                            !.lastDone = t,
                            !.overlap = @ \/ Overlaps(t)]
    /\ UNCHANGED <<wvars, trial, environ, _credentials_missing, _client,
                   clientsCreated, execution_globals, console, exec_pc,
                   stdout_capture, old_stdout, ret, raised, code, fault>>

ConcNext ==
    \/ \E t \in Threads : ThreadEnter(t)
    \/ \E t \in Threads : ThreadCreateClient(t)
    \/ \E t \in Threads : ThreadBind(t)
    \/ \E t \in Threads : ThreadSaveStdout(t)
    \/ \E t \in Threads : ThreadRedirect(t)
    \/ \E t \in Threads, s \in Statements : ThreadStatement(t, s)
    \/ \E t \in Threads : ThreadReturn(t)

ConcSpec == ConcInit /\ [][ConcNext]_vars

\* ------------------------------------------------- properties of WaitSpec
\* the state a report carries, read off the raw payload: the nested one when
\* baseStatus holds a state, else the flat one, else none
ObservedState(r) ==
    IF "nested" \in DOMAIN r
    THEN IF r.nested # Absent THEN r.nested ELSE r.flat
    ELSE Absent

\* the outcome a run report carries, Absent when a key on the path is missing
ObservedOutcome(r) ==
    IF "outcome" \in DOMAIN r THEN r.outcome ELSE Absent

StatusQueries == Len(SelectSeq(requests, LAMBDA x : x \in {"get_status", "get_info"}))

\* C1: when the last status report seen by wait_for_job carries DONE the
\* result has success = TRUE, when it carries FAILED or ABORTED the result
\* has success = FALSE, and the returned status is that last observed state.
C1_TerminalStateDecidesResult ==
    (pc = "returned" /\ op \in JobOps /\ ObservedState(lastReport) \in RemoteTerminal) =>
        /\ result.status = ObservedState(lastReport)
        /\ result.success = (ObservedState(lastReport) = "DONE")

C1_Witness ==
    /\ pc = "returned"
    /\ op = "wait_for_job"
    /\ StatusQueries >= 3
    /\ ObservedState(lastReport) = "ABORTED"
    /\ result.status = "ABORTED"
    /\ ~result.success

\* C2 (as stated): a wait that ends without a terminal report returns
\* TIMEOUT with success = FALSE and, status queries taking no time, a
\* duration d with timeout <= d < timeout + poll_interval.
C2_DurationHalfOpenFromTimeout ==
    (pc = "returned" /\ op \in JobOps /\ ObservedState(lastReport) \notin RemoteTerminal) =>
        /\ result.status = "TIMEOUT"
        /\ ~result.success
        /\ (~slow) => /\ timeout <= result.duration
                      /\ result.duration < timeout + poll_interval

\* C2 (amended): a wait that ends without a terminal report returns TIMEOUT
\* with success = FALSE and, status queries taking no time, a duration d
\* with timeout < d <= timeout + poll_interval.
C2_DurationAfterTimeout ==
    (pc = "returned" /\ op \in JobOps /\ ObservedState(lastReport) \notin RemoteTerminal) =>
        /\ result.status = "TIMEOUT"
        /\ ~result.success
        /\ timeout < result.duration
        /\ (~slow) => result.duration <= timeout + poll_interval

C2_Witness ==
    /\ pc = "returned"
    /\ op = "wait_for_job"
    /\ result.status = "TIMEOUT"
    /\ ~slow
    /\ poll_interval = 2
    /\ result.duration = timeout + poll_interval

\* C3: in every returned result success is TRUE iff the status is DONE (job,
\* build and recipe waits) or the outcome is SUCCESS (scenario waits); a
\* TIMEOUT, FAILED or ABORTED status or a non-SUCCESS outcome has
\* success = FALSE.
C3_SuccessIffDone ==
    pc = "returned" =>
        /\ op \in JobOps => (result.success <=> result.status = "DONE")
        /\ op \in ScenarioOps => (result.success <=> result.outcome = "SUCCESS")
        /\ result.status \in {"TIMEOUT", "FAILED", "ABORTED"} => ~result.success

C3_Witness ==
    /\ pc = "returned"
    /\ op = "run_scenario_and_wait"
    /\ result.status = "DONE"
    /\ result.outcome = "ABORTED"
    /\ ~result.success

\* C4: run_scenario_and_wait has returned as soon as a report carries a
\* non-null outcome, with that outcome and success iff it is SUCCESS; when
\* every report had a null or missing outcome a returned result is TIMEOUT
\* with success = FALSE and outcome null.
C4_ScenarioOutcome ==
    op \in ScenarioOps =>
        /\ ObservedOutcome(lastReport) \notin {Absent, None} =>
              /\ pc = "returned"
              /\ result.outcome = ObservedOutcome(lastReport)
              /\ result.success = (ObservedOutcome(lastReport) = "SUCCESS")
        /\ (pc = "returned" /\ ~seenState) =>
              /\ result.status = "TIMEOUT"
              /\ ~result.success
              /\ result.outcome = None

C4_Witness ==
    /\ pc = "returned"
    /\ op = "run_scenario_and_wait"
    /\ StatusQueries >= 2
    /\ ObservedOutcome(lastReport) = "SUCCESS"
    /\ result.success

\* C5: when no status report carried a state (nested or flat) wait_for_job
\* does not return before the deadline: a returned result is TIMEOUT, and
\* with status queries taking no time it has polled at every multiple of
\* poll_interval up to timeout.
C5_StatelessReportsTimeOut ==
    (pc = "returned" /\ op \in JobOps /\ ~seenState) =>
        /\ result.status = "TIMEOUT"
        /\ result.duration > timeout
        /\ (~slow) => StatusQueries = (timeout \div poll_interval) + 1

C5_Witness ==
    /\ pc = "returned"
    /\ op = "wait_for_job"
    /\ ~seenState
    /\ lastReport \in JobPayloads
    /\ lastReport.base
    /\ StatusQueries >= 3
    /\ result.status = "TIMEOUT"

\* the request log a wait may have produced: one build / run request for a
\* wrapper, then status queries only
RequestLogOK ==
    LET first == IF op = "build_and_wait" THEN <<"build">>
                 ELSE IF op \in {"run_recipe_and_wait", "run_scenario_and_wait"}
                      THEN <<"run">> ELSE <<>>
        query == IF op \in ScenarioOps THEN "get_info" ELSE "get_status"
    IN  /\ Len(requests) >= Len(first)
        /\ \A i \in 1..Len(requests) :
              requests[i] = (IF i <= Len(first) THEN first[i] ELSE query)

\* C6: a wait never mutates the remote operation: once the wait is polling,
\* no step of it changes the state of the remote operation, and the requests
\* it has sent are one build / run request (wrappers only) followed by
\* status queries only, also after a TIMEOUT.
C6_WaitDoesNotMutateRemote ==
    [][(pc = "polling" /\ (pc' # pc \/ requests' # requests \/ now' # now)) =>
            (remote' = remote /\ RequestLogOK')]_vars

C6_Witness ==
    /\ pc = "returned"
    /\ op = "build_and_wait"
    /\ result.status = "TIMEOUT"
    /\ remote = "RUNNING"
    /\ Len(requests) >= 3

\* C7: a status query that raises ends the wait at once with the error
\* propagated: no result is returned, and afterwards no further request is
\* made and the wait stays ended.
C7_QueryErrorPropagates ==
    [][(lastReport' = QueryFault) =>
            /\ pc' = "raised"
            /\ error' = "QueryError"
            /\ result' = NoResult
            /\ (lastReport = QueryFault => requests' = requests)]_vars

C7_Witness ==
    /\ pc = "raised"
    /\ op = "run_scenario_and_wait"
    /\ lastReport = QueryFault
    /\ StatusQueries >= 2
    /\ result = NoResult

\* ------------------------------------------------- properties of ExecSpec
Tokens(text) == {text[i] : i \in 1..Len(text)}

\* C8 (as stated): every identifier bound by an earlier call keeps its latest
\* value into every later call: no step taken between two calls or on entry
\* to a call changes a binding of the namespace.
C8_EveryBindingPersists ==
    [][exec_pc = "idle" =>
        \A n \in Names : execution_globals[n] # Unbound =>
            execution_globals'[n] = execution_globals[n]]_vars

\* C8 (amended): every identifier other than client keeps the binding the
\* earlier calls left into every later call (client is rebound to the
\* singleton on entry to each call that passes the credentials check), and
\* a call that only runs print(x) while an earlier call has bound x to 1
\* returns 1 and a newline: x = 1 then print(x) outputs 1.
C8_NamespacePersists ==
    [][/\ exec_pc = "idle" =>
            \A n \in Names \ {"client"} :
                execution_globals'[n] = execution_globals[n]
       /\ (exec_pc' = "idle" /\ code' = <<Stmt("print", "x", 0)>>
              /\ execution_globals'["x"] = IntVal(1)) =>
            ret' = Text(<<"1", "\n">>)]_vars

C8_Witness ==
    /\ exec_pc = "idle"
    /\ code = <<Stmt("print", "x", 0)>>
    /\ execution_globals["x"] = IntVal(1)
    /\ ret = Text(<<"1", "\n">>)

\* C9: after a call whose code raises, the call has returned a string that
\* contains the error kind and the message, and a call that then runs
\* print('ok') returns ok.
C9_CrashContained ==
    /\ (exec_pc = "idle" /\ fault # NoFault) =>
            /\ ret.kind = "text"
            /\ {fault.kind, fault.msg} \subseteq Tokens(ret.text)
    /\ (exec_pc = "idle" /\ code = <<Stmt("printlit", "ok", 0)>>) =>
            ret = Text(<<"ok", "\n">>)

\* C10: whatever the submitted code raises, execute_python returns a string
\* and propagates no exception to its caller.
C10_NeverPropagates ==
    (exec_pc = "idle" /\ fault # NoFault) =>
        /\ raised = None
        /\ ret.kind = "text"

\* C11: whenever no call is running, also after a call whose code raised,
\* sys.stdout is the stream it was before the call (the original one);
\* while a call runs it is the capture buffer, and nothing the submitted
\* code prints reaches the original stream.
C11_StdoutRestored ==
    /\ exec_pc = "idle" => sys_stdout = "original"
    /\ exec_pc = "running" => (sys_stdout = "capture" /\ old_stdout = "original")
    /\ console = <<>>

C11_Witness ==
    /\ exec_pc = "idle"
    /\ Len(code) = 2
    /\ code[1] = Stmt("printlit", "ok", 0)
    /\ fault.kind = "SystemExit"
    /\ execution_globals["x"] # Unbound
    /\ sys_stdout = "original"
    /\ console = <<>>

\* C12: with the configuration unset when the server loaded it
\* (_credentials_missing), every call returns the diagnostic text and raises
\* nothing, no submitted code is run, the namespace stays as seeded, no
\* client is acquired or built and sys.stdout is not redirected.
C12_MissingCredentialsRefuse ==
    [][_credentials_missing =>
        /\ environ' = environ => (ret' = Text(<<Diagnostic>>) /\ raised' = None)
        /\ execution_globals' = SeedGlobals
        /\ execution_globals' = execution_globals
        /\ _client' = NoClient
        /\ clientsCreated' = 0
        /\ exec_pc' = "idle"
        /\ code' = <<>>
        /\ sys_stdout' = "original"]_vars

C12_Witness ==
    /\ _credentials_missing
    /\ CredentialsMissing(environ)
    /\ ret = Text(<<Diagnostic>>)
    /\ raised = None
    /\ _client = NoClient
    /\ execution_globals = SeedGlobals

\* C13 (as stated): a call returns the diagnostic iff the configuration is
\* absent from the environment at the time of that call, and a call made
\* while it is absent attempts neither execution nor client acquisition.
C13_CheckedAtCallTime ==
    [][(exec_pc = "idle" /\ environ' = environ) =>
        /\ (ret' = Text(<<Diagnostic>>)) <=> CredentialsMissing(environ)
        /\ CredentialsMissing(environ) =>
              (exec_pc' = "idle" /\ raised' = None /\ _client' = _client)]_vars

\* C13 (amended): the flag _credentials_missing is never recomputed after
\* the module is loaded; a call returns the diagnostic iff that flag is set,
\* whatever the environment holds at the time of the call; a call made
\* while the flag is set attempts neither execution nor client acquisition,
\* a call made while it is clear goes on to client acquisition.
C13_CheckedAgainstImportFlag ==
    [][/\ _credentials_missing' = _credentials_missing
       /\ (exec_pc = "idle" /\ environ' = environ) =>
            /\ (ret' = Text(<<Diagnostic>>)) <=> _credentials_missing
            /\ _credentials_missing =>
                  /\ exec_pc' = "idle"
                  /\ raised' = None
                  /\ _client' = _client
                  /\ clientsCreated' = clientsCreated
                  /\ code' = <<>>
            /\ (~_credentials_missing) =>
                  \/ exec_pc' = "running" /\ _client' # NoClient
                  \/ raised' = "ValueError" /\ _client' = NoClient]_vars

C13_Witness ==
    /\ _credentials_missing
    /\ ~CredentialsMissing(environ)
    /\ exec_pc = "idle"
    /\ ret = Text(<<Diagnostic>>)
    /\ _client = NoClient

\* C14: over any sequence of calls at most one client is ever built, it is
\* built by a call that found the singleton unset and went on to run, the
\* singleton never changes once set, and every call that starts running has
\* client bound to that singleton.
C14_SingletonClient ==
    [][/\ clientsCreated' <= 1
       /\ _client # NoClient => _client' = _client
       /\ clientsCreated' # clientsCreated =>
            (_client = NoClient /\ _client' = clientsCreated' /\ exec_pc' = "running")
       /\ (exec_pc = "idle" /\ exec_pc' = "running") =>
            (_client' # NoClient /\ execution_globals'["client"] = ClientVal(_client'))]_vars

C14_Witness ==
    /\ exec_pc = "running"
    /\ code = <<>>
    /\ execution_globals["y"] # Unbound
    /\ clientsCreated = 1
    /\ _client = 1
    /\ execution_globals["client"] = ClientVal(1)

\* what the statements the last call ran must have printed, read off the
\* history code and the namespace the call left
IsPrint(s) == s.op \in {"print", "printlit"}
PrintsUpTo(k) == Cardinality({j \in 1..k : IsPrint(code[j])})
RebindsLater(k, n) ==
    \E j \in (k + 1)..Len(code) : code[j].op \in {"assign", "del"} /\ code[j].name = n
Shown(v) ==
    CASE v = IntVal(1) -> "1"
      [] v = IntVal(2) -> "2"
      [] v.t = "DSSClient" -> "<dataikuapi.DSSClient object>"
      [] OTHER -> "<unprintable>"

\* C15: a call that succeeded returned exactly what its own statements
\* printed, in order (one value and one newline per print), and returned
\* the placeholder when it printed nothing; nothing printed by an earlier
\* call is part of it.
C15_SuccessOutput ==
    (exec_pc = "idle" /\ ret.kind = "text" /\ fault = NoFault /\ ~_credentials_missing) =>
        IF PrintsUpTo(Len(code)) = 0
        THEN ret.text = <<Placeholder>>
        ELSE /\ Len(ret.text) = 2 * PrintsUpTo(Len(code))
             /\ \A k \in 1..Len(code) : IsPrint(code[k]) =>
                  /\ ret.text[2 * PrintsUpTo(k)] = "\n"
                  /\ code[k].op = "printlit" =>
                        ret.text[2 * PrintsUpTo(k) - 1] = code[k].name
                  /\ (code[k].op = "print" /\ ~RebindsLater(k, code[k].name)) =>
                        ret.text[2 * PrintsUpTo(k) - 1] =
                            Shown(execution_globals[code[k].name])

C15_Witness ==
    /\ exec_pc = "idle"
    /\ execution_globals["y"] # Unbound
    /\ code = <<Stmt("assign", "x", 2), Stmt("print", "x", 0)>>
    /\ fault = NoFault
    /\ ret = Text(<<"2", "\n">>)

\* text begins with what the first m statements of the last call printed
StartsWithPrinted(text, m) ==
    /\ Len(text) >= 2 * PrintsUpTo(m)
    /\ \A k \in 1..m : IsPrint(code[k]) =>
         /\ text[2 * PrintsUpTo(k)] = "\n"
         /\ code[k].op = "printlit" => text[2 * PrintsUpTo(k) - 1] = code[k].name
         /\ (code[k].op = "print" /\ ~RebindsLater(k, code[k].name)) =>
               text[2 * PrintsUpTo(k) - 1] = Shown(execution_globals[code[k].name])

\* C16: a call whose code raised returned a text that starts with the
\* output printed before the fault, followed by the error label, the type
\* name of what was raised, its message and then the trace; the output
\* printed before the fault is never lost.  (The statement that raised is
\* the last one of code and printed nothing.)
C16_FailureOutput ==
    (exec_pc = "idle" /\ fault # NoFault) =>
        LET n == 2 * PrintsUpTo(Len(code) - 1) IN
        /\ ret.kind = "text"
        /\ StartsWithPrinted(ret.text, Len(code) - 1)
        /\ Len(ret.text) > n + 5
        /\ SubSeq(ret.text, n + 1, n + 5) =
               <<"\nError: ", fault.kind, ": ", fault.msg, "\n\n">>
        /\ ret.text[n + 6] = "Traceback (most recent call last):\n"

\* C19: every wait runs the same loop.  The call starts the clock; each
\* iteration first compares the elapsed time with the timeout and, when it
\* is greater, returns TIMEOUT without a query; otherwise it makes exactly
\* one query and either returns (duration = the elapsed time of that
\* iteration, details = the report) or sleeps: 2 seconds in build_and_wait,
\* run_recipe_and_wait and run_scenario_and_wait, poll_interval seconds in
\* wait_for_job.  The three job operations return the same result for the
\* same report; the scenario result differs only in that it ends on an
\* outcome, reports status DONE, and carries the extra field outcome.
C19_UniformPolling ==
    [][LET elapsed == now - start_time
           returns == pc = "polling" /\ pc' = "returned"
           queries == pc = "polling" /\ requests' # requests
           common == {"success", "status", "duration", "details"}
       IN
        /\ (pc = "idle" /\ pc' = "polling") =>
              /\ start_time' = now
              /\ op' # "wait_for_job" => poll_interval' = 2
        /\ queries =>
              /\ elapsed <= timeout
              /\ Len(requests') = Len(requests) + 1
        /\ (queries /\ pc' = "polling") =>
              /\ now' >= now + poll_interval
              /\ (~slow') => now' = now + poll_interval
        /\ (returns /\ result'.status = "TIMEOUT") =>
              /\ elapsed > timeout
              /\ requests' = requests
              /\ now' = now
              /\ result'.success = FALSE
              /\ result'.duration = elapsed
        /\ (returns /\ result'.status # "TIMEOUT") =>
              /\ queries
              /\ result'.duration = elapsed
              /\ result'.details = lastReport'
        /\ (returns /\ op \in JobOps) =>
              /\ DOMAIN result' = common
              /\ result'.status # "TIMEOUT" =>
                    /\ result'.status = ObservedState(lastReport')
                    /\ result'.status \in {"DONE", "FAILED", "ABORTED"}
                    /\ result'.success = (result'.status = "DONE")
        /\ (returns /\ op \in ScenarioOps) =>
              /\ DOMAIN result' = common \cup {"outcome"}
              /\ result'.status = "TIMEOUT" => result'.outcome = None
              /\ result'.status # "TIMEOUT" =>
                    /\ result'.status = "DONE"
                    /\ result'.outcome = ObservedOutcome(lastReport')
                    /\ result'.outcome \in {"SUCCESS", "FAILED", "ABORTED"}
                    /\ result'.success = (result'.outcome = "SUCCESS")
      ]_vars

C19_Witness ==
    /\ pc = "returned"
    /\ op = "build_and_wait"
    /\ ~slow
    /\ StatusQueries = 2
    /\ result.status = "FAILED"
    /\ result.duration = 2

\* C20: a returned result that is not a TIMEOUT carries as details the last
\* report the remote returned, unchanged, and when that report says FAILED
\* or ABORTED the result repeats that value (as status of a job, as outcome
\* of a scenario run) with success = FALSE; a TIMEOUT result, and only it,
\* carries a message made locally from the timeout.
C20_DetailsVerbatim ==
    pc = "returned" =>
        /\ (result.details \in JobPayloads \cup RunInfos) = (result.status # "TIMEOUT")
        /\ result.status # "TIMEOUT" =>
              /\ result.details = lastReport
              /\ (op \in JobOps /\ ObservedState(lastReport) \in {"FAILED", "ABORTED"}) =>
                    /\ result.status = ObservedState(lastReport)
                    /\ ~result.success
              /\ (op \in ScenarioOps /\ ObservedOutcome(lastReport) \in {"FAILED", "ABORTED"}) =>
                    /\ result.outcome = ObservedOutcome(lastReport)
                    /\ ~result.success
        /\ result.status = "TIMEOUT" =>
              result.details =
                  [msg |-> IF op \in JobOps THEN "Job did not complete within"
                           ELSE "Scenario did not complete within",
                   seconds |-> timeout]

C20_Witness ==
    /\ pc = "returned"
    /\ op = "run_recipe_and_wait"
    /\ StatusQueries >= 2
    /\ lastReport = [base |-> TRUE, nested |-> "ABORTED", flat |-> "DONE"]
    /\ result.status = "ABORTED"
    /\ result.details = lastReport

\* C18: code that looks up a function advertised under helpers.jobs never
\* fails for a missing name: a call never ends with an AttributeError raised
\* by the lookup of an advertised function.
C18_AdvertisedHelpersAvailable ==
    (exec_pc = "idle" /\ code # <<>> /\ code[Len(code)].op = "attr"
        /\ code[Len(code)].name \in AdvertisedJobs) =>
            /\ fault.kind # "AttributeError"
            /\ "AttributeError" \notin Tokens(ret.text)

\* the variable names a snippet reads, binds or deletes
NamesUsed(snippet) ==
    {snippet[i].name : i \in {j \in DOMAIN snippet :
                                 snippet[j].op \in {"assign", "print", "del"}}}

\* C17: when two snippets share no variable name, each of them gives its
\* caller the same thing (the same returned text, or the same exception)
\* whether it runs as the first or as the second of two consecutive calls.
C17_OrderIndependent ==
    (trial.stage = "done" /\ NamesUsed(trial.a) \cap NamesUsed(trial.b) = {}) =>
        /\ trial.ab.a = trial.ba.a
        /\ trial.ab.b = trial.ba.b

C17_Witness ==
    /\ trial.stage = "done"
    /\ trial.a = <<Stmt("print", "x", 0)>>
    /\ trial.b = <<Stmt("assign", "y", 1)>>
    /\ trial.sess.g["x"] = IntVal(1)
    /\ trial.ab.a.ret = Text(<<"1", "\n">>)
    /\ trial.ba.b.ret = Text(<<Placeholder>>)

\* C22: a status report that carries a nested state (baseStatus.state) ends
\* the wait exactly when that nested state is DONE, FAILED or ABORTED,
\* whatever a flat state field says; the flat state decides only when the
\* nested one is absent, and with both absent the state is UNKNOWN and the
\* wait goes on.  The returned status is the deciding value.
C22_NestedStateFirst ==
    [][(pc = "polling" /\ op \in JobOps /\ requests' # requests
            /\ lastReport' \in JobPayloads) =>
         LET r == lastReport'
             deciding == IF r.nested # Absent THEN r.nested
                         ELSE IF r.flat # Absent THEN r.flat
                         ELSE "UNKNOWN"
         IN  /\ (pc' = "returned") = (deciding \in {"DONE", "FAILED", "ABORTED"})
             /\ (pc' # "returned") => (pc' = "polling" /\ result' = result)
             /\ (pc' = "returned") => result'.status = deciding
      ]_vars

C22_Witness ==
    /\ pc = "returned"
    /\ op = "wait_for_job"
    /\ lastReport = [base |-> TRUE, nested |-> "FAILED", flat |-> "DONE"]
    /\ result.status = "FAILED"
    /\ ~result.success

\* C23: in both loops an iteration returns TIMEOUT exactly when the elapsed
\* time at its top is strictly greater than timeout, and then it makes no
\* status query, also when the remote operation has ended meanwhile; with
\* elapsed = timeout the iteration still queries.  So a TIMEOUT result has
\* duration > timeout and every other result has duration <= timeout.
C23_DeadlineCheckedFirst ==
    [][(pc = "polling" /\ (pc' # pc \/ requests' # requests)) =>
         LET elapsed == now - start_time IN
         /\ (pc' = "returned" /\ result'.status = "TIMEOUT") = (elapsed > timeout)
         /\ (elapsed > timeout) => (requests' = requests /\ remote' = remote)
         /\ (elapsed <= timeout) => Len(requests') = Len(requests) + 1
         /\ (pc' = "returned" /\ result'.status = "TIMEOUT") =>
                result'.duration > timeout
         /\ (pc' = "returned" /\ result'.status # "TIMEOUT") =>
                result'.duration <= timeout
      ]_vars

C23_Witness ==
    /\ pc = "returned"
    /\ op = "run_scenario_and_wait"
    /\ remote = "DONE"
    /\ StatusQueries >= 2
    /\ result.status = "TIMEOUT"
    /\ result.duration = timeout + 1

\* C24: a wait_for_job that has started ends: it returns a result unless a
\* status query raised.  It reports TIMEOUT only after at least one status
\* query, and it never makes more than floor(timeout / poll_interval) + 1
\* status queries (exactly that many before a TIMEOUT when queries take no
\* time).
C24_TerminatesWithinBound ==
    /\ [](op \in JobOps =>
            /\ (pc = "raised") => lastReport = QueryFault
            /\ (pc = "returned" /\ result.status = "TIMEOUT") => StatusQueries >= 1
            /\ (poll_interval > 0) =>
                   StatusQueries <= (timeout \div poll_interval) + 1
            /\ (poll_interval > 0 /\ ~slow /\ pc = "returned"
                    /\ result.status = "TIMEOUT") =>
                   StatusQueries = (timeout \div poll_interval) + 1)
    /\ (op \in JobOps /\ pc = "polling") ~> (pc = "returned" \/ lastReport = QueryFault)

C24_Witness ==
    /\ pc = "returned"
    /\ op = "wait_for_job"
    /\ timeout = 3
    /\ poll_interval = 2
    /\ StatusQueries = 2
    /\ result.status = "TIMEOUT"
    /\ result.duration = 4

\* C25: the status of a result returned by wait_for_job, build_and_wait or
\* run_recipe_and_wait is DONE, FAILED, ABORTED or TIMEOUT, also when the
\* reports seen carried RUNNING or no state at all; the status of a result
\* returned by run_scenario_and_wait is DONE or TIMEOUT, and it is DONE for
\* every outcome the remote reported, failing ones included.
C25_StatusDomain ==
    pc = "returned" =>
        /\ op \in JobOps => result.status \in {"DONE", "FAILED", "ABORTED", "TIMEOUT"}
        /\ op \in ScenarioOps =>
              /\ result.status \in {"DONE", "TIMEOUT"}
              /\ (result.status = "DONE") = (result.outcome # None)
              /\ ObservedOutcome(lastReport) \in {"SUCCESS", "FAILED", "ABORTED"} =>
                    result.status = "DONE"

C25_Witness ==
    /\ pc = "returned"
    /\ op = "run_scenario_and_wait"
    /\ result.status = "DONE"
    /\ result.outcome = "ABORTED"
    /\ ~result.success
    /\ StatusQueries >= 2

\* C26 as stated: every call that passes the credentials check starts by
\* rebinding client in the namespace to the singleton client, leaving every
\* other entry as it was.
C26_EveryPassingCallRebinds ==
    [][(exec_pc = "idle" /\ ~_credentials_missing /\ environ' = environ) =>
            /\ _client' # NoClient
            /\ execution_globals' =
                   [execution_globals EXCEPT !["client"] = ClientVal(_client')]
      ]_vars

\* C26 amended: a call that passes the credentials check and whose client
\* acquisition does not raise (the singleton exists, or the environment is
\* set) starts by rebinding client to the singleton, whatever an earlier
\* call bound it to or deleted, and leaves every other entry as it was; a
\* call whose acquisition raises changes no entry and runs no code.
C26_AcquiringCallRebinds ==
    [][(exec_pc = "idle" /\ ~_credentials_missing /\ environ' = environ) =>
            IF _client # NoClient \/ (environ.url /\ environ.key)
            THEN /\ exec_pc' = "running"
                 /\ _client' # NoClient
                 /\ execution_globals' =
                        [execution_globals EXCEPT !["client"] = ClientVal(_client')]
            ELSE /\ exec_pc' = "idle"
                 /\ execution_globals' = execution_globals
      ]_vars

C26_Witness ==
    /\ exec_pc = "running"
    /\ code = <<>>
    /\ execution_globals["x"] = IntVal(2)
    /\ execution_globals["y"] = IntVal(1)
    /\ execution_globals["client"] = ClientVal(_client)
    /\ ret = NoReturn

\* C27: a call whose code raises leaves the namespace as the statements it
\* ran before the fault left it: the step that ends the call changes no
\* entry, every binding the prefix made (and did not itself rebind or
\* delete) is still there, and the next call finds x and y as they were.
C27_NoRollback ==
    [][/\ (exec_pc = "running" /\ exec_pc' = "idle" /\ fault' # NoFault) =>
            /\ execution_globals' = execution_globals
            /\ \A k \in 1..Len(code) :
                  (code[k].op = "assign" /\ ~RebindsLater(k, code[k].name)) =>
                      execution_globals'[code[k].name] = IntVal(code[k].val)
       /\ (exec_pc = "idle" /\ exec_pc' = "running") =>
            \A n \in {"x", "y"} : execution_globals'[n] = execution_globals[n]
      ]_vars

C27_Witness ==
    /\ exec_pc = "idle"
    /\ code = <<Stmt("assign", "x", 2), Stmt("raise", "RuntimeError", 0)>>
    /\ fault.kind = "RuntimeError"
    /\ execution_globals["x"] = IntVal(2)
    /\ ret.kind = "text"

\* C28: a call made with the credentials flag clear, no singleton yet and
\* the environment unset ends with the ValueError of get_client() and
\* changes nothing else: sys.stdout is still the original stream, no code
\* has run, the namespace is as it was and the singleton stays unset; a
\* call made after that failure with the environment set acquires the
\* client then.
C28_AcquireFailureLeavesSession ==
    [][/\ (exec_pc = "idle" /\ ~_credentials_missing /\ _client = NoClient
              /\ ~(environ.url /\ environ.key) /\ environ' = environ) =>
            /\ raised' = "ValueError"
            /\ ret' = NoReturn
            /\ exec_pc' = "idle"
            /\ code' = <<>>
            /\ sys_stdout' = "original"
            /\ sys_stdout' = sys_stdout
            /\ console' = console
            /\ execution_globals' = execution_globals
            /\ _client' = NoClient
            /\ clientsCreated' = clientsCreated
       /\ (exec_pc = "idle" /\ raised = "ValueError" /\ environ.url /\ environ.key
              /\ environ' = environ) =>
            /\ exec_pc' = "running"
            /\ _client' # NoClient
            /\ clientsCreated' = clientsCreated + 1
      ]_vars

C28_Witness ==
    /\ exec_pc = "idle"
    /\ raised = "ValueError"
    /\ ~_credentials_missing
    /\ ~environ.url
    /\ _client = NoClient
    /\ execution_globals = SeedGlobals
    /\ sys_stdout = "original"

\* what a call returns when no other call interferes: its own output
ExpectedReturn(t) ==
    IF conc.th[t].exc = NoFault
    THEN Text(IF conc.th[t].printed # <<>> THEN conc.th[t].printed
              ELSE <<"(executed successfully, no output)">>)
    ELSE IF conc.th[t].raised # None THEN NoReturn
    ELSE Text(conc.th[t].printed \o
              <<"\nError: ", conc.th[t].exc.kind, ": ", conc.th[t].exc.msg, "\n\n",
                "Traceback (most recent call last):\n",
                conc.th[t].exc.kind, ": ", conc.th[t].exc.msg, "\n">>)
BothReturned == \A t \in Threads : conc.th[t].pc = "returned"

\* C21: two calls that interleave can leave sys.stdout bound to a capture
\* buffer after both returned, can return each other's output, and can
\* create the client twice (the witness is such an execution); each of
\* these happens only when the calls overlapped: after both returned,
\* sys.stdout is what the call that returned last had saved, one client was
\* created per call that found _client unset, and without overlap the stream
\* is the original one, each call returned its own output and one client
\* was created.
C21_RacesNeedOverlap ==
    BothReturned =>
        /\ sys_stdout = conc.th[conc.lastDone].old
        /\ clientsCreated = Cardinality({t \in Threads : conc.th[t].sawNone})
        /\ (~conc.overlap) =>
              /\ sys_stdout = "original"
              /\ clientsCreated = 1
              /\ console = <<>>
              /\ \A t \in Threads : conc.th[t].ret = ExpectedReturn(t)

C21_Witness ==
    /\ BothReturned
    /\ sys_stdout = "capture2"
    /\ clientsCreated = 2
    /\ conc.th[2].printed = <<"ok", "\n">>
    /\ conc.th[2].ret = Text(<<"(executed successfully, no output)">>)
    /\ conc.th[1].ret = Text(<<"ok", "\n">>)
    /\ conc.th[1].printed = <<>>
====
